---- MODULE Spec2Model ----
(***************************************************************************)
(* Chat REST backend, three revisions of the same service:                 *)
(*   "sqlite"  src/server.js 1-370        SQLite store, bearer (JWT) auth  *)
(*   "json"    src/server.js 372-623      one JSON file per collection,    *)
(*                                        bearer (JWT) auth                *)
(*   "noauth"  src/unnamed/part_000 110-521  SQLite store, no auth         *)
(*                                                                         *)
(* Node runs one handler at a time; a handler gives up control at every    *)
(* `await`.  One step of a request is therefore: one store operation (a    *)
(* SQL statement or a whole-file read/write) together with the handler     *)
(* code that runs on its result up to the next store operation.  The first *)
(* step of a request also holds the middleware and the validation, which   *)
(* touch no shared state.  Steps of different requests interleave freely.  *)
(* fs.readFile and fs.writeFile each count as one store operation.         *)
(*                                                                         *)
(* uuidv4() is a counter per collection (fresh, never repeated).  Columns  *)
(* that are only copied from the request to the response (name, createdAt, *)
(* message type/status) are left out.  SQLite runs with foreign keys off   *)
(* (its default; the source never sets the pragma), so only PRIMARY KEY    *)
(* and UNIQUE are enforced.  A SELECT without ORDER BY returns rows in the *)
(* order of the table scan, which is insertion order.                      *)
(***************************************************************************)
EXTENDS Integers, Sequences, FiniteSets, TLC

VARIABLES
  backend,   \* which revision runs
  now,       \* wall clock, in hours
  tick,      \* number of steps taken so far (orders the steps of the log)
  nextId,    \* uuidv4(): next fresh id per collection
  tokens,    \* credentials signed by jwt.sign so far
  files,     \* json: the collections whose data/<name>.json exists
  users,     \* users table / users.json
  chats,     \* chats table / chats.json
  parts,     \* chat_participants table: set of <<chatId, userId>>
  messages,  \* messages table / messages.json
  uploads,   \* uploads table
  disk,      \* names of the files multer has stored under uploads/
  reqs       \* log of the requests, in order of arrival

store == <<files, users, chats, parts, messages, uploads, disk>>
vars == <<backend, now, tick, nextId, tokens, files, users, chats, parts,
          messages, uploads, disk, reqs>>

Backends == {"sqlite", "json", "noauth"}
Bearer == backend \in {"sqlite", "json"}
Sql == backend \in {"sqlite", "noauth"}

----------------------------------------------------------------------------
(* Bounds of the model *)

MaxConc == 2      \* requests in flight at the same time
AuthOps == 3      \* requests of a behaviour of SpecAuth
ChatOps == 2      \* requests of a behaviour of SpecChat
MsgOps == 4       \* requests of a behaviour of SpecMsg
GateOps == 2      \* requests of a behaviour of SpecGate
ValidOps == 2     \* requests of a behaviour of SpecValid
StoreOps == 3     \* requests of a behaviour of SpecStore
ListOps == 3      \* requests of a behaviour of SpecList
DedupOps == 2     \* requests of a behaviour of SpecDedup
PairOps == 4      \* requests of a behaviour of SpecPair
ForgeOps == 2     \* requests of a behaviour of SpecForge
MaxClock == 36    \* the clock stops here
ClockStep == 12   \* hours per Tick

Usernames == {"alice", "bob"}
Passwords == {"pw1", "pw2"}
UserIds == {1, 2}          \* ids a client may name as participant or sender
ChatIds == {1, 2}          \* ids a client may name as chatId
Contents == {"hi"}

(* Program constants *)
TokenTTL == 24    \* expiresIn: "24h"

----------------------------------------------------------------------------
(* Requests *)

NoTok == [userId |-> 0, username |-> "", exp |-> 0]
NoAuth == [kind |-> "none", tok |-> NoTok]
Garbage == [kind |-> "garbage", tok |-> NoTok]
BearerOf(t) == [kind |-> "bearer", tok |-> t]

NoLoc == [snap |-> <<>>, id |-> 0, k |-> 0]
NoOut == [none |-> TRUE]
Err(msg) == [error |-> msg]

Arrived(op, auth, body) ==
  [op |-> op, auth |-> auth, body |-> body, pc |-> "new", n |-> 0,
   t0 |-> tick + 1, t1 |-> 0, status |-> 0, out |-> NoOut, loc |-> NoLoc]

\* res.status(s).json(out): the request is answered in this step
Respond(r, s, out) ==
  [r EXCEPT !.pc = "done", !.status = s, !.out = out, !.n = @ + 1,
            !.t1 = tick + 1]

\* the handler awaits its next store operation
Await(r, pc, loc) == [r EXCEPT !.pc = pc, !.loc = loc, !.n = @ + 1]

InFlight == {i \in DOMAIN reqs : reqs[i].pc # "done"}
CanArrive(maxOps) == Len(reqs) < maxOps /\ Cardinality(InFlight) < MaxConc

First(s) == IF s = <<>> THEN <<>> ELSE <<Head(s)>>
Includes(s, x) == \E i \in DOMAIN s : s[i] = x
Ids(s) == {s[i].id : i \in DOMAIN s}

\* JSON: fs.readFile + JSON.parse inside try/catch: a missing file reads as []
ReadOrEmpty(name, content) == IF name \in files THEN content ELSE <<>>

----------------------------------------------------------------------------
(* verifyAuth: 0 = next(), else the status sent *)

Expired(t) == now >= t.exp

\* variant: the signature is checked, the expiry is not
verifyAuthIgnoringExpiry(auth) ==
  IF auth.kind = "none" THEN 401
  ELSE IF auth.kind = "garbage" THEN 403
  ELSE 0

verifyAuth(auth) ==
  IF auth.kind = "none" THEN 401
  ELSE IF auth.kind = "garbage" \/ Expired(auth.tok) THEN 403
  ELSE 0

\* who a new chat or message is attributed to: req.user.userId, the userId
\* claim of the verified credential (bearer); a field of the body (noauth)
CreatorOf(auth, body) == IF Bearer THEN auth.tok.userId ELSE body.createdBy

\* variant: a senderId in the body takes precedence over the credential
SenderFromBody(auth, body) ==
  IF body.senderId # 0 THEN body.senderId ELSE auth.tok.userId

SenderOf(auth, body) == IF Bearer THEN auth.tok.userId ELSE body.senderId

----------------------------------------------------------------------------
(* POST /api/auth/register *)

UsernameTaken(us, u) == \E i \in DOMAIN us : us[i].username = u

Register(u, p) ==
  LET r == Arrived("register", NoAuth, [username |-> u, password |-> p])
      newUser == [id |-> nextId.users, username |-> u, password |-> p]
      us == IF backend = "json" THEN ReadOrEmpty("users", users) ELSE users
  IN
  /\ tick' = tick + 1
  /\ UNCHANGED <<backend, now, tokens, store>>
  /\ IF u = "" \/ p = "" THEN
       /\ reqs' = Append(reqs, Respond(r, 400, Err("Username and password are required")))
       /\ UNCHANGED nextId
     ELSE IF UsernameTaken(us, u) THEN
       /\ reqs' = Append(reqs, Respond(r, 400, Err("Username already exists")))
       /\ UNCHANGED nextId
     ELSE
       /\ nextId' = [nextId EXCEPT !.users = @ + 1]
       /\ reqs' = Append(reqs,
            Await(r, "write",
              [snap |-> IF backend = "json" THEN Append(us, newUser) ELSE <<newUser>>,
               id |-> newUser.id, k |-> 0]))

\* variant: the new record is appended to what the file holds at write time
JsonWrittenAppended(content, loc) == Append(content, loc.snap[Len(loc.snap)])

\* what fs.writeFile(usersPath, JSON.stringify(users)) leaves in the file
JsonWritten(content, loc) == loc.snap

\* json: users.push(newUser); fs.writeFile(...); res.json(userWithoutPassword)
RegisterWrite(i) ==
  /\ i \in DOMAIN reqs
  /\ backend = "json"
  /\ reqs[i].op = "register" /\ reqs[i].pc = "write"
  /\ tick' = tick + 1
  /\ users' = JsonWritten(users, reqs[i].loc)
  /\ files' = files \cup {"users"}
  /\ reqs' = [reqs EXCEPT ![i] = Respond(@, 200,
                [id |-> @.loc.id, username |-> @.body.username])]
  /\ UNCHANGED <<backend, now, nextId, tokens, chats, parts, messages, uploads, disk>>

\* a table after INSERT INTO: the row goes to the end of the scan order
SqlInsert(table, row) == Append(table, row)

\* variant: the username column is not UNIQUE
UserPrimaryKeyFails(us, row) == row.id \in Ids(us)

\* users: id TEXT PRIMARY KEY, username TEXT UNIQUE
UserConstraintFails(us, row) ==
  UsernameTaken(us, row.username) \/ row.id \in Ids(us)

\* sql: INSERT INTO users; username is UNIQUE, a violation rejects and the
\* catch block answers 500
RegisterInsert(i) ==
  /\ i \in DOMAIN reqs
  /\ Sql
  /\ reqs[i].op = "register" /\ reqs[i].pc = "write"
  /\ tick' = tick + 1
  /\ LET row == reqs[i].loc.snap[Len(reqs[i].loc.snap)] IN
     IF UserConstraintFails(users, row) THEN
       /\ reqs' = [reqs EXCEPT ![i] = Respond(@, 500, Err("Internal server error"))]
       /\ UNCHANGED users
     ELSE
       /\ users' = SqlInsert(users, row)
       /\ reqs' = [reqs EXCEPT ![i] = Respond(@, 201,
                     [id |-> row.id, username |-> row.username])]
  /\ UNCHANGED <<backend, now, nextId, tokens, files, chats, parts, messages, uploads, disk>>

----------------------------------------------------------------------------
(* POST /api/auth/login *)

FindUser(us, u, p) ==
  First(SelectSeq(us, LAMBDA x : x.username = u /\ x.password = p))

Login(u, p) ==
  LET r == Arrived("login", NoAuth, [username |-> u, password |-> p])
      found == FindUser(users, u, p)
      tok == [userId |-> found[1].id, username |-> found[1].username,
              exp |-> now + TokenTTL]
  IN
  /\ tick' = tick + 1
  /\ UNCHANGED <<backend, now, nextId, store>>
  /\ IF u = "" \/ p = "" THEN
       /\ reqs' = Append(reqs, Respond(r, 400, Err("Username and password are required")))
       /\ UNCHANGED tokens
     ELSE IF backend = "json" /\ "users" \notin files THEN
       \* fs.readFile rejects, the outer catch answers
       /\ reqs' = Append(reqs, Respond(r, 500, Err("Internal server error")))
       /\ UNCHANGED tokens
     ELSE IF found = <<>> THEN
       /\ reqs' = Append(reqs, Respond(r, 401, Err("Invalid credentials")))
       /\ UNCHANGED tokens
     ELSE IF Bearer THEN
       /\ tokens' = tokens \cup {tok}
       /\ reqs' = Append(reqs, Respond(r, 200, [token |-> tok]))
     ELSE
       /\ reqs' = Append(reqs, Respond(r, 200,
                    [id |-> found[1].id, username |-> found[1].username]))
       /\ UNCHANGED tokens

----------------------------------------------------------------------------
(* GET /api/chats *)

\* bearer: the caller is req.user.userId; noauth: the userId query parameter
\* variant: the creator of a chat sees it too
JsonChatsOfOrBy(cs, me) ==
  SelectSeq(cs, LAMBDA c : Includes(c.participants, me) \/ c.createdBy = me)

\* json: chats.filter(chat => chat.participants.includes(userId))
JsonChatsOf(cs, me) == SelectSeq(cs, LAMBDA c : Includes(c.participants, me))

\* sql: SELECT c.* FROM chats c JOIN chat_participants cp ON c.id = cp.chatId
\* WHERE cp.userId = ?: one row per membership row of the user, and the
\* PRIMARY KEY allows one such row per chat
SqlChatsOf(cs, ps, me) == SelectSeq(cs, LAMBDA c : <<c.id, me>> \in ps)

ListChats(auth, userId) ==
  LET r == Arrived("listChats", auth, [userId |-> userId])
      v == IF Bearer THEN verifyAuth(auth) ELSE 0
      me == IF Bearer THEN auth.tok.userId ELSE userId
  IN
  /\ tick' = tick + 1
  /\ UNCHANGED <<backend, now, nextId, tokens, store>>
  /\ IF v # 0 THEN
       reqs' = Append(reqs, Respond(r, v, Err("auth")))
     ELSE IF backend = "noauth" /\ userId = 0 THEN
       reqs' = Append(reqs, Respond(r, 400, Err("userId query parameter is required")))
     ELSE IF backend = "json" THEN
       IF "chats" \notin files
       THEN reqs' = Append(reqs, Respond(r, 500, Err("Internal server error")))
       ELSE reqs' = Append(reqs, Respond(r, 200,
              [rows |-> JsonChatsOf(chats, me)]))
     ELSE
       reqs' = Append(reqs, Respond(r, 200,
              [rows |-> SqlChatsOf(chats, parts, me)]))

----------------------------------------------------------------------------
(* POST /api/chats *)

Missing == [kind |-> "missing", val |-> <<>>]     \* participants absent or falsy
NotArray == [kind |-> "other", val |-> <<>>]      \* truthy, not an array
Array(s) == [kind |-> "array", val |-> s]

\* const { participants, type = "individual" } = req.body
TypeOf(body) == IF body.type = "" THEN "individual" ELSE body.type

\* the validation that answers 400
ChatBodyRejected(body) ==
  \/ body.participants.kind # "array"
  \/ backend = "noauth" /\ body.createdBy = 0

\* variant: the lookup runs for every two-party chat, whatever its type
DedupAnyType(type, p) == Len(p) = 2

\* the condition under which the lookup for an existing chat runs
DedupApplies(type, p) == type = "individual" /\ Len(p) = 2

\* variant: the participants are compared position by position
JsonExistingChatOrdered(cs, p0, p1) ==
  First(SelectSeq(cs, LAMBDA c :
    /\ c.type = "individual"
    /\ Len(c.participants) = 2
    /\ c.participants[1] = p0
    /\ c.participants[2] = p1))

\* json: chats.find(...)
JsonExistingChat(cs, p0, p1) ==
  First(SelectSeq(cs, LAMBDA c :
    /\ c.type = "individual"
    /\ Len(c.participants) = 2
    /\ Includes(c.participants, p0)
    /\ Includes(c.participants, p1)))

\* sql: db.get(SELECT c.* FROM chats c JOIN cp1 JOIN cp2 WHERE ...)
SqlExistingChat(cs, ps, p0, p1) ==
  First(SelectSeq(cs, LAMBDA c :
    /\ c.type = "individual"
    /\ <<c.id, p0>> \in ps
    /\ <<c.id, p1>> \in ps))

CreateChat(auth, body) ==
  LET r == Arrived("createChat", auth, body)
      v == IF Bearer THEN verifyAuth(auth) ELSE 0
      p == body.participants.val
      type == TypeOf(body)
      by == CreatorOf(auth, body)
      id == nextId.chats
      cs == ReadOrEmpty("chats", chats)
      found == IF backend = "json" THEN JsonExistingChat(cs, p[1], p[2])
               ELSE SqlExistingChat(chats, parts, p[1], p[2])
      jsonChat == [id |-> id, type |-> type, participants |-> p, createdBy |-> by]
      sqlChat == [id |-> id, type |-> type, createdBy |-> by]
  IN
  /\ tick' = tick + 1
  /\ UNCHANGED <<backend, now, tokens, files, users, parts, messages, uploads, disk>>
  /\ IF v # 0 THEN
       /\ reqs' = Append(reqs, Respond(r, v, Err("auth")))
       /\ UNCHANGED <<nextId, chats>>
     ELSE IF ChatBodyRejected(body) THEN
       /\ reqs' = Append(reqs, Respond(r, 400, Err("Participants array is required")))
       /\ UNCHANGED <<nextId, chats>>
     ELSE IF DedupApplies(type, p) /\ found # <<>> THEN
       /\ reqs' = Append(reqs, Respond(r, 200, found[1]))
       /\ UNCHANGED <<nextId, chats>>
     ELSE IF backend = "json" THEN
       /\ nextId' = [nextId EXCEPT !.chats = @ + 1]
       /\ reqs' = Append(reqs,
            Await(r, "write", [snap |-> Append(cs, jsonChat), id |-> id, k |-> 0]))
       /\ UNCHANGED chats
     ELSE IF DedupApplies(type, p) THEN
       \* the SELECT found nothing; INSERT INTO chats is awaited next
       /\ nextId' = [nextId EXCEPT !.chats = @ + 1]
       /\ reqs' = Append(reqs, Await(r, "insert", [snap |-> <<sqlChat>>, id |-> id, k |-> 0]))
       /\ UNCHANGED chats
     ELSE
       \* no lookup: INSERT INTO chats is the first statement
       /\ nextId' = [nextId EXCEPT !.chats = @ + 1]
       /\ chats' = SqlInsert(chats, sqlChat)
       /\ reqs' = Append(reqs,
            IF p = <<>>
            THEN Respond(Await(r, "parts", [snap |-> <<sqlChat>>, id |-> id, k |-> 1]),
                         201, sqlChat)
            ELSE Await(r, "parts", [snap |-> <<sqlChat>>, id |-> id, k |-> 1]))

\* json: chats.push(newChat); fs.writeFile(...); res.json(newChat)
CreateChatWrite(i) ==
  /\ i \in DOMAIN reqs
  /\ backend = "json"
  /\ reqs[i].op = "createChat" /\ reqs[i].pc = "write"
  /\ tick' = tick + 1
  /\ chats' = JsonWritten(chats, reqs[i].loc)
  /\ files' = files \cup {"chats"}
  /\ reqs' = [reqs EXCEPT ![i] = Respond(@, 200, @.loc.snap[Len(@.loc.snap)])]
  /\ UNCHANGED <<backend, now, nextId, tokens, users, parts, messages, uploads, disk>>

\* sql: INSERT INTO chats, after the lookup found nothing
CreateChatInsert(i) ==
  /\ i \in DOMAIN reqs
  /\ Sql
  /\ reqs[i].op = "createChat" /\ reqs[i].pc = "insert"
  /\ tick' = tick + 1
  /\ chats' = SqlInsert(chats, reqs[i].loc.snap[1])
  /\ reqs' = [reqs EXCEPT ![i] = Await(@, "parts", [@.loc EXCEPT !.k = 1])]
  /\ UNCHANGED <<backend, now, nextId, tokens, files, users, parts, messages, uploads, disk>>

\* sql: one INSERT INTO chat_participants of the for loop; PRIMARY KEY
\* (chatId, userId) rejects a repeated row and the catch block answers 500
CreateChatParticipant(i) ==
  /\ i \in DOMAIN reqs
  /\ Sql
  /\ reqs[i].op = "createChat" /\ reqs[i].pc = "parts"
  /\ tick' = tick + 1
  /\ LET p == reqs[i].body.participants.val
         k == reqs[i].loc.k
         row == <<reqs[i].loc.id, p[k]>>
     IN
     IF row \in parts THEN
       /\ reqs' = [reqs EXCEPT ![i] = Respond(@, 500, Err("Internal server error"))]
       /\ UNCHANGED parts
     ELSE
       /\ parts' = parts \cup {row}
       /\ reqs' = [reqs EXCEPT ![i] =
            IF k = Len(p) THEN Respond(@, 201, @.loc.snap[1])
            ELSE Await(@, "parts", [@.loc EXCEPT !.k = k + 1])]
  /\ UNCHANGED <<backend, now, nextId, tokens, files, users, chats, messages, uploads, disk>>

----------------------------------------------------------------------------
(* GET /api/messages *)

\* variant: no filter on the chat
MessagesOfAnyChat(ms, chatId) == ms

\* messages.filter(msg => msg.chatId === chatId) / SELECT * FROM messages
\* WHERE chatId = ?
MessagesOf(ms, chatId) == SelectSeq(ms, LAMBDA m : m.chatId = chatId)

ListMessages(auth, chatId) ==
  LET r == Arrived("listMessages", auth, [chatId |-> chatId])
      v == IF Bearer THEN verifyAuth(auth) ELSE 0
  IN
  /\ tick' = tick + 1
  /\ UNCHANGED <<backend, now, nextId, tokens, store>>
  /\ IF v # 0 THEN
       reqs' = Append(reqs, Respond(r, v, Err("auth")))
     ELSE IF chatId = 0 THEN
       reqs' = Append(reqs, Respond(r, 400, Err("Chat ID is required")))
     ELSE IF backend = "json" /\ "messages" \notin files THEN
       reqs' = Append(reqs, Respond(r, 500, Err("Internal server error")))
     ELSE
       reqs' = Append(reqs, Respond(r, 200,
              [rows |-> MessagesOf(messages, chatId)]))

----------------------------------------------------------------------------
(* POST /api/messages *)

MessageBodyRejected(body) ==
  \/ body.chatId = 0
  \/ body.content = ""
  \/ backend = "noauth" /\ body.senderId = 0

PostMessage(auth, body) ==
  LET r == Arrived("postMessage", auth, body)
      v == IF Bearer THEN verifyAuth(auth) ELSE 0
      sender == SenderOf(auth, body)
      msg == [id |-> nextId.messages, chatId |-> body.chatId,
              senderId |-> sender, content |-> body.content]
      ms == ReadOrEmpty("messages", messages)
  IN
  /\ tick' = tick + 1
  /\ UNCHANGED <<backend, now, tokens, files, users, chats, parts, uploads, disk>>
  /\ IF v # 0 THEN
       /\ reqs' = Append(reqs, Respond(r, v, Err("auth")))
       /\ UNCHANGED <<nextId, messages>>
     ELSE IF MessageBodyRejected(body) THEN
       /\ reqs' = Append(reqs, Respond(r, 400, Err("Chat ID and content are required")))
       /\ UNCHANGED <<nextId, messages>>
     ELSE IF backend = "json" THEN
       /\ nextId' = [nextId EXCEPT !.messages = @ + 1]
       /\ reqs' = Append(reqs,
            Await(r, "write", [snap |-> Append(ms, msg), id |-> msg.id, k |-> 0]))
       /\ UNCHANGED messages
     ELSE
       \* sql: INSERT INTO messages is the only statement
       /\ nextId' = [nextId EXCEPT !.messages = @ + 1]
       /\ messages' = SqlInsert(messages, msg)
       /\ reqs' = Append(reqs, Respond(r, 201, msg))

\* json: messages.push(newMessage); fs.writeFile(...); res.json(newMessage)
PostMessageWrite(i) ==
  /\ i \in DOMAIN reqs
  /\ backend = "json"
  /\ reqs[i].op = "postMessage" /\ reqs[i].pc = "write"
  /\ tick' = tick + 1
  /\ messages' = JsonWritten(messages, reqs[i].loc)
  /\ files' = files \cup {"messages"}
  /\ reqs' = [reqs EXCEPT ![i] = Respond(@, 200, @.loc.snap[Len(@.loc.snap)])]
  /\ UNCHANGED <<backend, now, nextId, tokens, users, chats, parts, uploads, disk>>

----------------------------------------------------------------------------
(* POST /api/upload *)

\* file: "none" (no file field), "ok", or "refused" (fileFilter or the size
\* limit calls back with an error; nothing stays on disk and express's
\* default error handler answers 500)
Upload(auth, file, uploadedBy) ==
  LET r == Arrived("upload", auth, [file |-> file, uploadedBy |-> uploadedBy])
      v == IF Bearer THEN verifyAuth(auth) ELSE 0
      id == nextId.uploads
      by == IF Bearer THEN auth.tok.userId ELSE uploadedBy
  IN
  /\ tick' = tick + 1
  /\ UNCHANGED <<backend, now, tokens, files, users, chats, parts, messages>>
  /\ IF v # 0 THEN
       /\ reqs' = Append(reqs, Respond(r, v, Err("auth")))
       /\ UNCHANGED <<nextId, uploads, disk>>
     ELSE IF backend = "json" THEN
       /\ reqs' = Append(reqs, Respond(r, 500,
                    Err("File upload not implemented in this environment")))
       /\ UNCHANGED <<nextId, uploads, disk>>
     ELSE IF file = "refused" THEN
       /\ reqs' = Append(reqs, Respond(r, 500, Err("Only images and PDFs are allowed")))
       /\ UNCHANGED <<nextId, uploads, disk>>
     ELSE IF file = "none" THEN
       /\ reqs' = Append(reqs, Respond(r, 400, Err("No file uploaded")))
       /\ UNCHANGED <<nextId, uploads, disk>>
     ELSE IF backend = "noauth" /\ uploadedBy = 0 THEN
       \* multer has stored the file before the handler looks at the body
       /\ nextId' = [nextId EXCEPT !.uploads = @ + 1]
       /\ disk' = disk \cup {id}
       /\ reqs' = Append(reqs, Respond(r, 400, Err("uploadedBy is required")))
       /\ UNCHANGED uploads
     ELSE
       /\ nextId' = [nextId EXCEPT !.uploads = @ + 1]
       /\ disk' = disk \cup {id}
       /\ uploads' = SqlInsert(uploads, [id |-> id, uploadedBy |-> by])
       /\ reqs' = Append(reqs, Respond(r, 201, [id |-> id, uploadedBy |-> by]))

----------------------------------------------------------------------------
(* Time passes *)

Tick ==
  /\ now + ClockStep <= MaxClock
  /\ now' = now + ClockStep
  /\ UNCHANGED <<backend, tick, nextId, tokens, store, reqs>>

----------------------------------------------------------------------------
(* The JSON revision serving the requests of the log one after another,    *)
(* each handler run to its answer before the next request arrives: the     *)
(* state of its files and its answers, as a function of the requests       *)

JsonStart ==
  [files |-> {}, users |-> <<>>, chats |-> <<>>, messages |-> <<>>,
   nextId |-> [users |-> 1, chats |-> 1, messages |-> 1], outs |-> <<>>]

Answered(js, s, out) ==
  [js EXCEPT !.outs = Append(@, [status |-> s, out |-> out])]
JsonRead(js, name, content) == IF name \in js.files THEN content ELSE <<>>

JsonRegister(js, body) ==
  LET us == JsonRead(js, "users", js.users)
      newUser == [id |-> js.nextId.users, username |-> body.username,
                  password |-> body.password]
  IN
  IF body.username = "" \/ body.password = "" THEN
    Answered(js, 400, Err("Username and password are required"))
  ELSE IF UsernameTaken(us, body.username) THEN
    Answered(js, 400, Err("Username already exists"))
  ELSE
    Answered([js EXCEPT !.users = Append(us, newUser),
                        !.files = @ \cup {"users"},
                        !.nextId.users = @ + 1],
             200, [id |-> newUser.id, username |-> newUser.username])

JsonLogin(js, body) ==
  LET found == FindUser(js.users, body.username, body.password)
      tok == [userId |-> found[1].id, username |-> found[1].username,
              exp |-> now + TokenTTL]
  IN
  IF body.username = "" \/ body.password = "" THEN
    Answered(js, 400, Err("Username and password are required"))
  ELSE IF "users" \notin js.files THEN
    Answered(js, 500, Err("Internal server error"))
  ELSE IF found = <<>> THEN Answered(js, 401, Err("Invalid credentials"))
  ELSE Answered(js, 200, [token |-> tok])

JsonListChats(js, auth) ==
  IF verifyAuth(auth) # 0 THEN Answered(js, verifyAuth(auth), Err("auth"))
  ELSE IF "chats" \notin js.files THEN
    Answered(js, 500, Err("Internal server error"))
  ELSE Answered(js, 200, [rows |-> JsonChatsOf(js.chats, auth.tok.userId)])

JsonCreateChat(js, auth, body) ==
  LET p == body.participants.val
      type == TypeOf(body)
      cs == JsonRead(js, "chats", js.chats)
      found == JsonExistingChat(cs, p[1], p[2])
      newChat == [id |-> js.nextId.chats, type |-> type, participants |-> p,
                  createdBy |-> auth.tok.userId]
  IN
  IF verifyAuth(auth) # 0 THEN Answered(js, verifyAuth(auth), Err("auth"))
  ELSE IF body.participants.kind # "array" THEN
    Answered(js, 400, Err("Participants array is required"))
  ELSE IF DedupApplies(type, p) /\ found # <<>> THEN
    Answered(js, 200, found[1])
  ELSE
    Answered([js EXCEPT !.chats = Append(cs, newChat),
                        !.files = @ \cup {"chats"},
                        !.nextId.chats = @ + 1],
             200, newChat)

JsonListMessages(js, auth, body) ==
  IF verifyAuth(auth) # 0 THEN Answered(js, verifyAuth(auth), Err("auth"))
  ELSE IF body.chatId = 0 THEN Answered(js, 400, Err("Chat ID is required"))
  ELSE IF "messages" \notin js.files THEN
    Answered(js, 500, Err("Internal server error"))
  ELSE Answered(js, 200, [rows |-> MessagesOf(js.messages, body.chatId)])

JsonPostMessage(js, auth, body) ==
  LET ms == JsonRead(js, "messages", js.messages)
      msg == [id |-> js.nextId.messages, chatId |-> body.chatId,
              senderId |-> auth.tok.userId, content |-> body.content]
  IN
  IF verifyAuth(auth) # 0 THEN Answered(js, verifyAuth(auth), Err("auth"))
  ELSE IF body.chatId = 0 \/ body.content = "" THEN
    Answered(js, 400, Err("Chat ID and content are required"))
  ELSE
    Answered([js EXCEPT !.messages = Append(ms, msg),
                        !.files = @ \cup {"messages"},
                        !.nextId.messages = @ + 1],
             200, msg)

JsonServe(js, q) ==
  CASE q.op = "register" -> JsonRegister(js, q.body)
    [] q.op = "login" -> JsonLogin(js, q.body)
    [] q.op = "listChats" -> JsonListChats(js, q.auth)
    [] q.op = "createChat" -> JsonCreateChat(js, q.auth, q.body)
    [] q.op = "listMessages" -> JsonListMessages(js, q.auth, q.body)
    [] q.op = "postMessage" -> JsonPostMessage(js, q.auth, q.body)

\* the JSON revision after the first k requests of the log
RECURSIVE JsonAfter(_)
JsonAfter(k) ==
  IF k = 0 THEN JsonStart ELSE JsonServe(JsonAfter(k - 1), reqs[k])

----------------------------------------------------------------------------
(* Initial states *)

Empty ==
  /\ backend \in Backends
  /\ now = 0 /\ tick = 0
  /\ nextId = [users |-> 1, chats |-> 1, messages |-> 1, uploads |-> 1]
  /\ tokens = {}
  /\ files = {}
  /\ users = <<>> /\ chats = <<>> /\ parts = {} /\ messages = <<>> /\ uploads = <<>>
  /\ disk = {}
  /\ reqs = <<>>

\* alice and bob have registered and logged in at time 0, one after the
\* other, and nothing else has happened; the log starts here
Alice == [id |-> 1, username |-> "alice", password |-> "pw1"]
Bob == [id |-> 2, username |-> "bob", password |-> "pw2"]
TokenOf(u) == [userId |-> u.id, username |-> u.username, exp |-> TokenTTL]

Seeded ==
  /\ backend \in Backends
  /\ now = 0 /\ tick = 0
  /\ nextId = [users |-> 3, chats |-> 1, messages |-> 1, uploads |-> 1]
  /\ tokens = IF Bearer THEN {TokenOf(Alice), TokenOf(Bob)} ELSE {}
  /\ files = IF backend = "json" THEN {"users"} ELSE {}
  /\ users = <<Alice, Bob>>
  /\ chats = <<>> /\ parts = {} /\ messages = <<>> /\ uploads = <<>>
  /\ disk = {}
  /\ reqs = <<>>

\* how user u of the seeded store presents itself to a protected route
CallerAuth(u) == IF Bearer THEN BearerOf(TokenOf(u)) ELSE NoAuth
Seed(id) == IF id = 1 THEN Alice ELSE Bob

----------------------------------------------------------------------------
(* Registration and login, from the empty store *)

AuthNames == Usernames \cup {""}

NextAuth ==
  \/ /\ CanArrive(AuthOps)
     /\ \E u \in AuthNames, p \in Passwords : Register(u, p)
  \/ /\ CanArrive(AuthOps)
     /\ \E u \in Usernames, p \in Passwords \cup {""} : Login(u, p)
  \/ \E i \in DOMAIN reqs : RegisterWrite(i)
  \/ \E i \in DOMAIN reqs : RegisterInsert(i)

SpecAuth == Empty /\ [][NextAuth]_vars

----------------------------------------------------------------------------
(* Chat creation by the two seeded users: the caller is the first          *)
(* participant                                                              *)

ChatLists == {<<1, 2>>, <<2, 1>>, <<1, 2, 1>>}
ChatTypes == {"individual", "group"}

ChatBody(p, type, by) ==
  [participants |-> p, type |-> type,
   createdBy |-> IF backend = "noauth" THEN by ELSE 0]

NextChat ==
  \/ /\ CanArrive(ChatOps)
     /\ \E p \in ChatLists, t \in ChatTypes :
          CreateChat(CallerAuth(Seed(p[1])), ChatBody(Array(p), t, p[1]))
  \/ \E i \in DOMAIN reqs : CreateChatWrite(i)
  \/ \E i \in DOMAIN reqs : CreateChatInsert(i)
  \/ \E i \in DOMAIN reqs : CreateChatParticipant(i)

SpecChat == Seeded /\ [][NextChat]_vars

----------------------------------------------------------------------------
(* Request validation of chat creation *)

BadLists == {Missing, NotArray, Array(<<>>), Array(<<1>>), Array(<<1, 2>>)}

NextValid ==
  \/ /\ CanArrive(ValidOps)
     /\ \E p \in BadLists, by \in {0, 1} :
          CreateChat(CallerAuth(Alice), ChatBody(p, "", by))
  \/ \E i \in DOMAIN reqs : CreateChatWrite(i)
  \/ \E i \in DOMAIN reqs : CreateChatInsert(i)
  \/ \E i \in DOMAIN reqs : CreateChatParticipant(i)

SpecValid == Seeded /\ [][NextValid]_vars

----------------------------------------------------------------------------
(* Messages of the two seeded users *)

MsgBody(c, text, by) ==
  [chatId |-> c, content |-> text,
   senderId |-> IF backend = "noauth" THEN by ELSE 0]

NextMsg ==
  \/ /\ CanArrive(MsgOps)
     /\ \E u \in UserIds, c \in ChatIds, text \in Contents :
          PostMessage(CallerAuth(Seed(u)), MsgBody(c, text, u))
  \/ /\ CanArrive(MsgOps)
     /\ \E c \in ChatIds : ListMessages(CallerAuth(Alice), c)
  \/ \E i \in DOMAIN reqs : PostMessageWrite(i)

SpecMsg == Seeded /\ [][NextMsg]_vars

----------------------------------------------------------------------------
(* The protected routes of the bearer revisions, with every kind of        *)
(* credential, while time passes                                            *)

GateAuths == {NoAuth, Garbage, BearerOf(TokenOf(Alice))}

NextGate ==
  \/ Tick
  \/ /\ CanArrive(GateOps)
     /\ \E a \in GateAuths : ListChats(a, 0)
  \/ /\ CanArrive(GateOps)
     /\ \E a \in GateAuths : CreateChat(a, ChatBody(Array(<<1, 2>>), "", 0))
  \/ /\ CanArrive(GateOps)
     /\ \E a \in GateAuths : ListMessages(a, 1)
  \/ /\ CanArrive(GateOps)
     /\ \E a \in GateAuths : PostMessage(a, MsgBody(1, "hi", 0))
  \/ /\ CanArrive(GateOps)
     /\ \E a \in GateAuths, f \in {"ok", "none", "refused"} : Upload(a, f, 0)
  \/ \E i \in DOMAIN reqs : CreateChatWrite(i)
  \/ \E i \in DOMAIN reqs : CreateChatInsert(i)
  \/ \E i \in DOMAIN reqs : CreateChatParticipant(i)
  \/ \E i \in DOMAIN reqs : PostMessageWrite(i)

SeededBearer == Seeded /\ backend # "noauth"

SpecGate == SeededBearer /\ [][NextGate]_vars

----------------------------------------------------------------------------
(* Writers of the three collections side by side *)

NextStore ==
  \/ /\ CanArrive(StoreOps)
     /\ Register("carol", "pw1")
  \/ /\ CanArrive(StoreOps)
     /\ \E t \in ChatTypes :
          CreateChat(CallerAuth(Alice), ChatBody(Array(<<1, 2>>), t, 1))
  \/ /\ CanArrive(StoreOps)
     /\ PostMessage(CallerAuth(Alice), MsgBody(1, "hi", 1))
  \/ \E i \in DOMAIN reqs : RegisterWrite(i)
  \/ \E i \in DOMAIN reqs : RegisterInsert(i)
  \/ \E i \in DOMAIN reqs : CreateChatWrite(i)
  \/ \E i \in DOMAIN reqs : CreateChatInsert(i)
  \/ \E i \in DOMAIN reqs : CreateChatParticipant(i)
  \/ \E i \in DOMAIN reqs : PostMessageWrite(i)

SpecStore == Seeded /\ [][NextStore]_vars

----------------------------------------------------------------------------
(* Chats created by alice, with and without herself among the             *)
(* participants, and the chat lists of both users                          *)

ListLists == {<<1>>, <<2>>, <<1, 2>>}

NextList ==
  \/ /\ CanArrive(ListOps)
     /\ \E p \in ListLists :
          CreateChat(CallerAuth(Alice), ChatBody(Array(p), "", 1))
  \/ /\ CanArrive(ListOps)
     /\ \E u \in UserIds : ListChats(CallerAuth(Seed(u)), u)
  \/ \E i \in DOMAIN reqs : CreateChatWrite(i)
  \/ \E i \in DOMAIN reqs : CreateChatInsert(i)
  \/ \E i \in DOMAIN reqs : CreateChatParticipant(i)

SpecList == Seeded /\ [][NextList]_vars

----------------------------------------------------------------------------
(* The lookup for an existing chat: alice asks for individual chats with   *)
(* bob, with herself twice, and with bob and a third user                  *)

DedupLists == {<<1, 2>>, <<1, 1>>, <<1, 2, 3>>}

NextDedup ==
  \/ /\ CanArrive(DedupOps)
     /\ \E p \in DedupLists :
          CreateChat(CallerAuth(Alice), ChatBody(Array(p), "", 1))
  \/ \E i \in DOMAIN reqs : CreateChatWrite(i)
  \/ \E i \in DOMAIN reqs : CreateChatInsert(i)
  \/ \E i \in DOMAIN reqs : CreateChatParticipant(i)

SpecDedup == Seeded /\ [][NextDedup]_vars

----------------------------------------------------------------------------
(* The six operations from the empty store, one request after another: a   *)
(* request arrives when no other is in flight.  A protected route is       *)
(* called with a credential that login has issued.                         *)

Idle == InFlight = {}
Issued == {BearerOf(t) : t \in tokens}
PairLists == {<<1, 2>>, <<1, 1>>}

NextPair ==
  \/ /\ Idle /\ CanArrive(PairOps)
     /\ Register("alice", "pw1")
  \/ /\ Idle /\ CanArrive(PairOps)
     /\ Login("alice", "pw1")
  \/ /\ Idle /\ CanArrive(PairOps)
     /\ \E a \in Issued : ListChats(a, 0)
  \/ /\ Idle /\ CanArrive(PairOps)
     /\ \E a \in Issued, p \in PairLists : CreateChat(a, ChatBody(Array(p), "", 0))
  \/ /\ Idle /\ CanArrive(PairOps)
     /\ \E a \in Issued : ListMessages(a, 1)
  \/ /\ Idle /\ CanArrive(PairOps)
     /\ \E a \in Issued : PostMessage(a, MsgBody(1, "hi", 0))
  \/ \E i \in DOMAIN reqs : RegisterWrite(i)
  \/ \E i \in DOMAIN reqs : RegisterInsert(i)
  \/ \E i \in DOMAIN reqs : CreateChatWrite(i)
  \/ \E i \in DOMAIN reqs : CreateChatInsert(i)
  \/ \E i \in DOMAIN reqs : CreateChatParticipant(i)
  \/ \E i \in DOMAIN reqs : PostMessageWrite(i)

EmptyBearer == Empty /\ backend # "noauth"

SpecPair == EmptyBearer /\ [][NextPair]_vars

----------------------------------------------------------------------------
(* Bearer revisions: chats and messages whose body names an author, who    *)
(* may differ from the caller                                               *)

Named == {0} \cup UserIds     \* 0: the body has no such field

NextForge ==
  \/ /\ CanArrive(ForgeOps)
     /\ \E u \in UserIds, by \in Named, t \in ChatTypes :
          CreateChat(BearerOf(TokenOf(Seed(u))),
                     [participants |-> Array(<<1, 2>>), type |-> t,
                      createdBy |-> by])
  \/ /\ CanArrive(ForgeOps)
     /\ \E u \in UserIds, by \in Named :
          PostMessage(BearerOf(TokenOf(Seed(u))),
                      [chatId |-> 1, content |-> "hi", senderId |-> by])
  \/ \E i \in DOMAIN reqs : CreateChatWrite(i)
  \/ \E i \in DOMAIN reqs : CreateChatInsert(i)
  \/ \E i \in DOMAIN reqs : CreateChatParticipant(i)
  \/ \E i \in DOMAIN reqs : PostMessageWrite(i)

SpecForge == SeededBearer /\ [][NextForge]_vars

----------------------------------------------------------------------------
(* Vocabulary of the properties *)

Done(r) == r.pc = "done"
Success(r) == Done(r) /\ r.status \in {200, 201}
\* r was answered before q arrived
Before(r, q) == Done(r) /\ r.t1 < q.t0
\* r and q were in flight at the same time
Overlap(r, q) == r.t0 <= q.t1 /\ q.t0 <= r.t1
\* no step of another request lies between the arrival of r and the answer of q
BackToBack(r, q) == Before(r, q) /\ Done(q) /\ q.t1 - r.t0 + 1 = r.n + q.n
\* the request got past verifyAuth and the validation of its body
Created(r) == r.n >= 1 /\ r.loc.id # 0
CallerOf(r) == IF Bearer THEN r.auth.tok.userId ELSE r.body.createdBy
MembersOf(c) ==
  IF backend = "json" THEN {c.participants[k] : k \in DOMAIN c.participants}
  ELSE {m[2] : m \in {q \in parts : q[1] = c.id}}
Collection(op) ==
  CASE op = "register" -> users
    [] op = "createChat" -> chats
    [] op = "postMessage" -> messages
Writers == {"register", "createChat", "postMessage"}

----------------------------------------------------------------------------
\* C1: for distinct users a and b, createChat by a with participants [a,b]
\* (individual) followed back to back by createChat by b with participants
\* [b,a] (individual): both are answered with success and the second call
\* returns the chat id of the first, in every backend.
C1_Pair(i, j) ==
  /\ reqs[i].op = "createChat" /\ reqs[j].op = "createChat"
  /\ TypeOf(reqs[i].body) = "individual" /\ TypeOf(reqs[j].body) = "individual"
  /\ \E a, b \in UserIds :
       /\ a # b
       /\ reqs[i].body.participants = Array(<<a, b>>) /\ CallerOf(reqs[i]) = a
       /\ reqs[j].body.participants = Array(<<b, a>>) /\ CallerOf(reqs[j]) = b
  /\ BackToBack(reqs[i], reqs[j])

C1_SameChatBothOrders ==
  \A i, j \in DOMAIN reqs :
    C1_Pair(i, j) =>
      /\ Success(reqs[i]) /\ Success(reqs[j])
      /\ reqs[j].out.id = reqs[i].out.id

\* the first call created the chat and the second one got it back
C1_Witness ==
  \E i, j \in DOMAIN reqs :
    /\ C1_Pair(i, j)
    /\ Created(reqs[i]) /\ ~Created(reqs[j])
    /\ reqs[j].out.id = reqs[i].out.id

----------------------------------------------------------------------------
\* C2: in every reachable state the store holds at most one chat of type
\* individual whose participant set is a given two-user set {a,b}.
C2_OneChatPerPair ==
  \A a, b \in UserIds :
    a # b =>
      Cardinality({k \in DOMAIN chats :
        chats[k].type = "individual" /\ MembersOf(chats[k]) = {a, b}}) <= 1

----------------------------------------------------------------------------
\* C3: once register(username, password) has answered with success and a user
\* id, every later login(username, password) succeeds and returns a credential
\* (or identity) whose userId is the id register returned, whatever other
\* requests were processed or interleaved with the register.
LoginIdentity(r) == IF Bearer THEN r.out.token.userId ELSE r.out.id

C3_RegisterThenLogin ==
  \A i, j \in DOMAIN reqs :
    (/\ reqs[i].op = "register" /\ Success(reqs[i])
     /\ reqs[j].op = "login" /\ Done(reqs[j])
     /\ reqs[j].body = reqs[i].body
     /\ Before(reqs[i], reqs[j]))
    => /\ reqs[j].status = 200
       /\ LoginIdentity(reqs[j]) = reqs[i].out.id

----------------------------------------------------------------------------
\* C4: a register request whose username is held by a stored user when it
\* arrives fails with the conflict error (400, "Username already exists"),
\* whatever the password, and adds no user; and of two registrations of one
\* username in flight at the same time, the one answered after the other has
\* created the user gets the conflict error too and adds no user.
C4_Conflict(r) ==
  /\ r.status = 400 /\ r.out = Err("Username already exists")
  /\ users' = users

C4_TakenOnArrival(i) ==
  i \notin DOMAIN reqs /\ UsernameTaken(users, reqs'[i].body.username)

C4_LostTheRace(i) ==
  /\ Done(reqs'[i]) /\ i \in DOMAIN reqs /\ ~Done(reqs[i])
  /\ \E j \in DOMAIN reqs :
       /\ j # i /\ reqs[j].op = "register" /\ Success(reqs[j])
       /\ reqs[j].body.username = reqs[i].body.username
       /\ reqs[j].t1 >= reqs[i].t0

C4_TakenNameIsConflict ==
  [][\A i \in DOMAIN reqs' :
       (/\ reqs'[i].op = "register"
        /\ reqs'[i].body.username # "" /\ reqs'[i].body.password # ""
        /\ C4_TakenOnArrival(i) \/ C4_LostTheRace(i))
       => C4_Conflict(reqs'[i])]_vars

\* the first half alone: the name is stored when the request arrives
C4_TakenOnArrivalIsConflict ==
  [][\A i \in DOMAIN reqs' :
       (/\ reqs'[i].op = "register"
        /\ reqs'[i].body.username # "" /\ reqs'[i].body.password # ""
        /\ C4_TakenOnArrival(i))
       => C4_Conflict(reqs'[i])]_vars

----------------------------------------------------------------------------
\* C5: when the postMessage requests answered so far ran one after another
\* and N >= 1 of them posted to chat c with success, a listMessages(c) that
\* arrives then is answered with exactly those N messages, in posting order,
\* and with no message of another chat.
PostsBefore(l) ==
  SelectSeq(reqs, LAMBDA r : r.op = "postMessage" /\ Before(r, l))
OneAfterAnother(ps) ==
  \A x, y \in DOMAIN ps : x < y => Before(ps[x], ps[y])
PostedTo(ps, c) ==
  SelectSeq(ps, LAMBDA r : Success(r) /\ r.body.chatId = c)

C5_Case(l) ==
  /\ l.op = "listMessages" /\ Done(l)
  /\ OneAfterAnother(PostsBefore(l))
  /\ PostedTo(PostsBefore(l), l.body.chatId) # <<>>

----------------------------------------------------------------------------
\* C6: in the JSON-file backend two writers of one collection can both be
\* answered with success while the collection keeps the record of only one:
\* whenever writer j read the file before writer i wrote it and wrote it after
\* i, and nobody wrote since, the collection holds j's record and not i's.
Wrote(r) == r.op \in Writers /\ Success(r) /\ r.n = 2
LastWrite(j) ==
  \A k \in DOMAIN reqs :
    (reqs[k].op = reqs[j].op /\ Wrote(reqs[k])) => reqs[k].t1 <= reqs[j].t1

C6_Race(i, j) ==
  /\ backend = "json"
  /\ reqs[i].op = reqs[j].op
  /\ Wrote(reqs[i]) /\ Wrote(reqs[j])
  /\ reqs[j].t0 < reqs[i].t1 /\ reqs[i].t1 < reqs[j].t1
  /\ LastWrite(j)

C6_LostUpdate ==
  \A i, j \in DOMAIN reqs :
    C6_Race(i, j) =>
      /\ reqs[i].loc.id \notin Ids(Collection(reqs[i].op))
      /\ reqs[j].loc.id \in Ids(Collection(reqs[j].op))

C6_Witness ==
  \E i, j \in DOMAIN reqs :
    /\ C6_Race(i, j)
    /\ reqs[i].op = "postMessage"
    /\ reqs[i].status = 200 /\ reqs[j].status = 200
    /\ Len(messages) = 1

----------------------------------------------------------------------------
\* C7: in the SQLite backends every register, createChat or postMessage
\* request answered 201 has its record in the store, in every state from
\* then on; of two registrations of one username only one is answered 201
\* and the other gets an error response.
Stored(r) ==
  CASE r.op = "register" ->
         \E k \in DOMAIN users :
           /\ users[k].id = r.out.id
           /\ users[k].username = r.body.username
           /\ users[k].password = r.body.password
    [] r.op = "createChat" ->
         /\ \E k \in DOMAIN chats : chats[k] = r.out
         /\ \A k \in DOMAIN r.body.participants.val :
              <<r.out.id, r.body.participants.val[k]>> \in parts
    [] r.op = "postMessage" ->
         \E k \in DOMAIN messages : messages[k] = r.out

C7_SqlKeepsWhatItAnswered ==
  Sql =>
    /\ \A i \in DOMAIN reqs :
         (reqs[i].op \in Writers /\ Done(reqs[i]) /\ reqs[i].status = 201)
           => Stored(reqs[i])
    /\ \A i, j \in DOMAIN reqs :
         (/\ i # j
          /\ reqs[i].op = "register" /\ reqs[j].op = "register"
          /\ reqs[i].body.username = reqs[j].body.username
          /\ reqs[i].status = 201 /\ Done(reqs[j]))
         => reqs[j].status \in {400, 500}

\* two registrations of one name raced: one got 201, the other the error
C7_Witness ==
  /\ Sql
  /\ \E i, j \in DOMAIN reqs :
       /\ reqs[i].op = "register" /\ reqs[j].op = "register"
       /\ reqs[i].status = 201 /\ reqs[j].status = 500
       /\ Stored(reqs[i])
  /\ \E i \in DOMAIN reqs : reqs[i].op = "postMessage" /\ reqs[i].status = 201

----------------------------------------------------------------------------
\* C8: createChat with type group never deduplicates: every such call with a
\* participants array takes a fresh id, which no chat of the store has, and
\* when the call is answered the store holds a chat with that id, also when
\* a chat with the same participant set exists.
GroupCall(r) ==
  /\ r.op = "createChat" /\ TypeOf(r.body) = "group"
  /\ r.body.participants.kind = "array"
  /\ r.status \notin {400, 401, 403}

C8_GroupNeverDedups ==
  [][\A i \in DOMAIN reqs' :
       GroupCall(reqs'[i]) =>
         /\ i \notin DOMAIN reqs =>
              /\ reqs'[i].loc.id = nextId.chats
              /\ reqs'[i].loc.id \notin Ids(chats)
         /\ (Done(reqs'[i]) /\ (i \notin DOMAIN reqs \/ ~Done(reqs[i]))) =>
              /\ reqs'[i].loc.id \in Ids(chats')
              /\ Success(reqs'[i]) => reqs'[i].out.id = reqs'[i].loc.id]_vars

\* a group chat was created for a pair that already had an individual chat
C8_Witness ==
  \E i, j \in DOMAIN reqs :
    /\ reqs[i].op = "createChat" /\ TypeOf(reqs[i].body) = "individual"
    /\ Success(reqs[i]) /\ Created(reqs[i])
    /\ GroupCall(reqs[j]) /\ Success(reqs[j])
    /\ Before(reqs[i], reqs[j])
    /\ reqs[j].body.participants = reqs[i].body.participants
    /\ reqs[j].out.id # reqs[i].out.id

----------------------------------------------------------------------------
\* C9: in the bearer revisions a request to a protected route without an
\* Authorization header is answered 401, and one whose credential is invalid
\* or expired is answered 403; it is answered as it arrives, the handler
\* does not run and the store does not change.
Protected ==
  {"listChats", "createChat", "listMessages", "postMessage", "upload"}

C9_Refused(r, code) ==
  /\ Done(r) /\ r.status = code /\ r.n = 1 /\ r.loc = NoLoc
  /\ store' = store /\ nextId' = nextId /\ tokens' = tokens

C9_GateKeepsOut ==
  [][(Bearer /\ Len(reqs') = Len(reqs) + 1 /\ reqs'[Len(reqs')].op \in Protected) =>
       LET r == reqs'[Len(reqs')] IN
       /\ r.auth.kind = "none" => C9_Refused(r, 401)
       /\ (r.auth.kind = "garbage" \/ (r.auth.kind = "bearer" /\ now >= r.auth.tok.exp))
            => C9_Refused(r, 403)]_vars

\* an expired credential, a missing one and a good one have been presented
C9_Witness ==
  /\ \E i \in DOMAIN reqs :
       reqs[i].auth.kind = "bearer" /\ reqs[i].status = 403
  /\ \E i \in DOMAIN reqs : reqs[i].status = 401

----------------------------------------------------------------------------
\* C10: a createChat whose participants is missing, not an array or an empty
\* array is answered 400 and creates no chat record and no membership row.
C10_EmptyParticipantsRejected ==
  \A i \in DOMAIN reqs :
    (/\ reqs[i].op = "createChat"
     /\ reqs[i].n >= 1
     /\ \/ reqs[i].body.participants.kind # "array"
        \/ reqs[i].body.participants.val = <<>>)
    => /\ reqs[i].status = 400
       /\ ~Created(reqs[i])

----------------------------------------------------------------------------
\* C11: after a createChat that created a new chat with participants P, the
\* chat list of user u holds that chat exactly once if u occurs in P and not
\* at all otherwise; the creator is not added when absent from P.  The list
\* is taken after the creation was answered (sql), with no step of another
\* request in between (json, where a concurrent writer may lose the chat).
ListerOf(r) == IF Bearer THEN r.auth.tok.userId ELSE r.body.userId
TimesListed(r, id) ==
  Cardinality({k \in DOMAIN r.out.rows : r.out.rows[k].id = id})

C11_Case(i, j) ==
  /\ reqs[i].op = "createChat" /\ Success(reqs[i]) /\ Created(reqs[i])
  /\ reqs[j].op = "listChats" /\ Done(reqs[j])
  /\ Before(reqs[i], reqs[j])
  /\ backend = "json" => BackToBack(reqs[i], reqs[j])

----------------------------------------------------------------------------
\* C12: when createChat with type individual and two ids p0, p1 is answered
\* with an existing chat, that chat has type individual and its participant
\* set is exactly {p0, p1}: never a chat with a third participant and, for
\* p0 = p1, never a chat that pairs p0 with another user.
GotExisting(r) ==
  /\ r.op = "createChat" /\ Success(r) /\ ~Created(r)
  /\ DedupApplies(TypeOf(r.body), r.body.participants.val)

C12_LookupIsExact ==
  \A i \in DOMAIN reqs :
    GotExisting(reqs[i]) =>
      /\ reqs[i].out.type = "individual"
      /\ MembersOf(reqs[i].out) =
           {reqs[i].body.participants.val[1], reqs[i].body.participants.val[2]}

----------------------------------------------------------------------------
\* C13: a createChat whose participants list names the same id more than
\* once and that creates a chat is answered with success, and the stored
\* chat holds each participant of the list exactly once, in every backend.
Range(s) == {s[k] : k \in DOMAIN s}
HasRepeat(s) == \E a, b \in DOMAIN s : a # b /\ s[a] = s[b]
\* the stored membership of chat c, one entry per stored occurrence
StoredOnce(c) ==
  IF backend = "json" THEN ~HasRepeat(c.participants) ELSE TRUE

C13_Case(r) ==
  /\ r.op = "createChat" /\ Done(r) /\ Created(r)
  /\ HasRepeat(r.body.participants.val)

C13_RepeatedIdsStoredOnce ==
  \A i \in DOMAIN reqs :
    C13_Case(reqs[i]) =>
      /\ Success(reqs[i])
      /\ \A k \in DOMAIN chats :
           chats[k].id = reqs[i].loc.id =>
             /\ MembersOf(chats[k]) = Range(reqs[i].body.participants.val)
             /\ StoredOnce(chats[k])

----------------------------------------------------------------------------
\* C14: createChat is all-or-nothing.  When it is answered 500 the store
\* holds no chat record and no membership row written by that request, and
\* in no state does the store hold a chat with only part (or none) of the
\* participants of the request that created it.
WroteNothing(r) ==
  /\ r.loc.id \notin Ids(chats)
  /\ \A m \in parts : m[1] # r.loc.id

C14_AllOrNothing ==
  /\ \A i \in DOMAIN reqs :
       (reqs[i].op = "createChat" /\ Done(reqs[i]) /\ reqs[i].status = 500)
         => WroteNothing(reqs[i])
  /\ \A k \in DOMAIN chats : \A i \in DOMAIN reqs :
       (reqs[i].op = "createChat" /\ reqs[i].loc.id = chats[k].id)
         => MembersOf(chats[k]) = Range(reqs[i].body.participants.val)

----------------------------------------------------------------------------
\* C15: a listMessages for a non-empty chat id that has no messages (the
\* chat may not exist) is answered with success and the empty sequence, in
\* every state including the initial one; likewise a listChats for a user
\* who is in no chat is answered with success and the empty list.
Admitted(r) == Bearer => verifyAuth(r.auth) = 0
EmptyList(r) == r.status = 200 /\ r.out = [rows |-> <<>>]
InNoChat(u) == \A k \in DOMAIN chats : u \notin MembersOf(chats[k])

C15_EmptyListsSucceed ==
  [][Len(reqs') = Len(reqs) + 1 =>
       LET r == reqs'[Len(reqs')] IN
       /\ (/\ r.op = "listMessages" /\ Admitted(r) /\ r.body.chatId # 0
           /\ MessagesOf(messages, r.body.chatId) = <<>>) => EmptyList(r)
       /\ (/\ r.op = "listChats" /\ Admitted(r)
           /\ backend = "noauth" => r.body.userId # 0
           /\ InNoChat(ListerOf(r))) => EmptyList(r)]_vars

----------------------------------------------------------------------------
\* C16: the JSON revision and the SQLite revision present the same
\* contract: for every sequence of register, login, createChat, listChats,
\* postMessage and listMessages served one after another from the empty
\* store, each request gets the same status code and the same record (up to
\* generated ids) from both, and both end with the same users, the same
\* chats with the same members, and the same messages.
NoId(rec) == IF "id" \in DOMAIN rec THEN [rec EXCEPT !.id = 0] ELSE rec
UpToIds(out) ==
  IF "rows" \in DOMAIN out
  THEN [rows |-> [k \in DOMAIN out.rows |-> NoId(out.rows[k])]]
  ELSE NoId(out)

SameOutcome(r, o) == r.status = o.status /\ UpToIds(r.out) = UpToIds(o.out)

SameStore(js) ==
  /\ [k \in DOMAIN users |-> NoId(users[k])]
       = [k \in DOMAIN js.users |-> NoId(js.users[k])]
  /\ [k \in DOMAIN chats |->
        [type |-> chats[k].type, createdBy |-> chats[k].createdBy,
         members |-> MembersOf(chats[k])]]
       = [k \in DOMAIN js.chats |->
           [type |-> js.chats[k].type, createdBy |-> js.chats[k].createdBy,
            members |-> Range(js.chats[k].participants)]]
  /\ [k \in DOMAIN messages |-> NoId(messages[k])]
       = [k \in DOMAIN js.messages |-> NoId(js.messages[k])]

C16_SameContract ==
  backend = "sqlite" =>
    LET js == JsonAfter(Len(reqs)) IN
    /\ \A k \in DOMAIN reqs :
         Done(reqs[k]) => SameOutcome(reqs[k], js.outs[k])
    /\ Idle => SameStore(js)

\* JsonAfter is the JSON revision: run one request after another, the JSON
\* backend of the model gives the answers and the files JsonAfter computes
JsonAfterIsJson ==
  (backend = "json" /\ Idle) =>
    LET js == JsonAfter(Len(reqs)) IN
    /\ \A k \in DOMAIN reqs :
         reqs[k].status = js.outs[k].status /\ reqs[k].out = js.outs[k].out
    /\ users = js.users /\ chats = js.chats /\ messages = js.messages
    /\ files = js.files
    /\ \A c \in {"users", "chats", "messages"} : nextId[c] = js.nextId[c]

----------------------------------------------------------------------------
\* C17: in the bearer revisions every stored message has as senderId, and
\* every stored chat as createdBy, the userId of the credential that
\* authenticated the request that created it; a senderId or createdBy in
\* the body of that request changes nothing.
PostedBy(r, m) ==
  /\ r.op = "postMessage"
  /\ r.loc.id = m.id \/ (Success(r) /\ r.out.id = m.id)
ChatMadeBy(r, c) == r.op = "createChat" /\ r.loc.id = c.id

C17_AttributedToCredential ==
  Bearer =>
    /\ \A k \in DOMAIN messages : \E i \in DOMAIN reqs :
         /\ PostedBy(reqs[i], messages[k])
         /\ messages[k].senderId = reqs[i].auth.tok.userId
    /\ \A k \in DOMAIN chats : \E i \in DOMAIN reqs :
         /\ ChatMadeBy(reqs[i], chats[k])
         /\ chats[k].createdBy = reqs[i].auth.tok.userId
    /\ \A i \in DOMAIN reqs :
         /\ (reqs[i].op = "postMessage" /\ Success(reqs[i]))
              => reqs[i].out.senderId = reqs[i].auth.tok.userId
         /\ (reqs[i].op = "createChat" /\ Success(reqs[i]) /\ Created(reqs[i]))
              => reqs[i].out.createdBy = reqs[i].auth.tok.userId

\* a message and a chat are stored whose requests named the other user
C17_Witness ==
  /\ Bearer
  /\ \E k \in DOMAIN messages : \E i \in DOMAIN reqs :
       /\ PostedBy(reqs[i], messages[k])
       /\ reqs[i].body.senderId \notin {0, reqs[i].auth.tok.userId}
  /\ \E k \in DOMAIN chats : \E i \in DOMAIN reqs :
       /\ ChatMadeBy(reqs[i], chats[k])
       /\ reqs[i].body.createdBy \notin {0, reqs[i].auth.tok.userId}

====
